---- MODULE Spec2Model ----
(***************************************************************************)
(* Caller-side state coordination of the AirTap Android SDK: the sandbox    *)
(* session (construction, provisioning, input, shell, screenshot,           *)
(* waitForApp, release), the file manager's transfer with its base64        *)
(* conversion, and the stream, record and app managers, each driven by      *)
(* serialized calls against a transport / shell primitive whose outcome     *)
(* (a response, or a thrown error) is chosen by the environment.            *)
(*                                                                         *)
(* Every action is one whole call of a method: the requests it issues are   *)
(* collected in last.reqs, the value it resolves with in last.ret, the      *)
(* error it rejects with in last.raised, and the state it started from in   *)
(* last.pre. waitForApp alone is one action per await, since how long each  *)
(* await takes decides how many polls it issues.                            *)
(***************************************************************************)
EXTENDS Integers, Sequences, FiniteSets

VARIABLES
    streamId,            \* StreamManager.streamId   (0 is null)
    streamUrl,           \* StreamManager.streamUrl  ("null", "undefined" or a URL)
    isStreaming,         \* StreamManager.isStreaming
    recordingId,         \* RecordManager.recordingId (0 is null)
    isRecording,         \* RecordManager.isRecording
    recordingStartTime,  \* RecordManager.recordingStartTime (-1 is null)
    uuid,                \* number of ids uuidv4() has handed out
    svc,                 \* what the service has seen: streams created and torn down,
                         \* the last creation it answered, recordings it started
    starting,            \* ids of the stream start() calls awaiting their response
    awaiting,            \* recorder calls suspended at an await
    api_key,             \* AndroidSandbox.api_key ("none" before any construction)
    device_id,           \* AndroidSandbox._device_id ("null" is null)
    clock,               \* Date.now(), in ms since the waitForApp in progress began
                         \* (0 when none is)
    polling,             \* the waitForApp call in progress, if any
    deviceFile,          \* the content the service holds for the remote path
    last                 \* the last completed call

vars == <<streamId, streamUrl, isStreaming, recordingId, isRecording,
          recordingStartTime, uuid, svc, starting, awaiting, api_key, device_id, clock, polling,
          deviceFile, last>>

streamVars == <<streamId, streamUrl, isStreaming>>
recordVars == <<recordingId, isRecording, recordingStartTime>>
sandboxVars == <<api_key, device_id, clock, polling>>
fileVars == <<deviceFile>>

----------------------------------------------------------------------------
(* Bounds *)

MaxUuid == 2
MaxTime == 1

(* Values the environment may answer with *)

\* What `new Date()` can read, in seconds
Timestamps == 0 .. MaxTime

Urls == {"u1", "u2"}

----------------------------------------------------------------------------
(* Error taxonomy *)

\* Every exception class has constructor(message): a second argument (the
\* cause) is accepted by JavaScript and dropped.
AirTapError(name) == [name |-> name, cause |-> "none"]

NoError == [name |-> "none", cause |-> "none"]

StreamError == AirTapError("StreamError")

AppError == AirTapError("AppError")

FileError == AirTapError("FileError")

\* The record manager destructures RecordingError from the exceptions module,
\* which exports RecordError and no RecordingError: the binding is undefined
\* and every `new RecordingError(...)` throws a TypeError instead.
RecordingError == [name |-> "TypeError", cause |-> "none"]

----------------------------------------------------------------------------
(* Requests and the record of a call *)

\* A reply of the transport or of the shell primitive: it resolved with `out`,
\* or it threw
Ok(out) == [ok |-> TRUE, out |-> out]

Throws == [ok |-> FALSE, out |-> "none"]

\* A throw among replies whose `out` is not a string (`out` is never read then)
ThrowsOf(out) == [ok |-> FALSE, out |-> out]

\* A request as the transport saw it, with the reply it was given
Req(kind, id, arg, reply) == [kind |-> kind, id |-> id, arg |-> arg, reply |-> reply]

Kinds(reqs) == {reqs[i].kind : i \in DOMAIN reqs}

Call(op, arg, raised, ret, reqs, pre) ==
    [op |-> op, arg |-> arg, raised |-> raised, ret |-> ret, reqs |-> reqs, pre |-> pre]

\* uuidv4(): an id no earlier call was given
uuidv4 == uuid + 1

\* No waitForApp() call is in progress
NotPolling == [pc |-> "idle", pkg |-> "none", timeout_ms |-> 0, end_time |-> 0, reqs |-> <<>>]

\* The service holds nothing for the remote path
NoFile == [exists |-> FALSE, content |-> <<>>, bytes |-> <<>>]

Init ==
    /\ streamId = 0
    /\ streamUrl = "null"
    /\ isStreaming = FALSE
    /\ recordingId = 0
    /\ isRecording = FALSE
    /\ recordingStartTime = -1
    /\ uuid = 0
    /\ svc = [created |-> {}, deleted |-> {}, lastId |-> 0, lastUrl |-> "null",
              recorded |-> {}]
    /\ starting = {}
    /\ awaiting = {}
    /\ api_key = "none"
    /\ device_id = "null"
    /\ clock = 0
    /\ polling = NotPolling
    /\ deviceFile = NoFile
    /\ last = Call("init", <<>>, NoError, "none", <<>>, "none")

----------------------------------------------------------------------------
(* StreamManager *)

StreamPre ==
    [isStreaming |-> isStreaming, streamId |-> streamId, streamUrl |-> streamUrl,
     live |-> svc.created \ svc.deleted]

\* What apiClient.post('/stream', ...) can do: resolve with an object that
\* carries a streamUrl, resolve with an object that carries none, or throw.
CreateResponses == {Ok(u) : u \in Urls \cup {"undefined"}} \cup {Throws}

\* Mutant: start() without its early return
StartNeverReturnsExisting == FALSE

\* start(): `if (this.isStreaming) return this.streamUrl`
StartReturnsExisting == isStreaming

StreamStartExisting ==
    /\ StartReturnsExisting
    /\ last' = Call("stream.start", 0, NoError, streamUrl, <<>>, StreamPre)
    /\ UNCHANGED <<streamVars, recordVars, uuid, svc>>
    /\ UNCHANGED <<sandboxVars, fileVars, starting, awaiting>>

\* start(): isStreaming is assigned after the awaited request, so a request
\* that throws leaves the flag as it was
FlagAfterCreate(resp) == IF resp.ok THEN TRUE ELSE isStreaming

\* start() from Idle: the id is generated and stored before the request; the
\* URL and the flag are stored only when the request resolves.
StreamStartRequest(resp) ==
    /\ ~StartReturnsExisting
    /\ uuid < MaxUuid
    /\ uuid' = uuidv4
    /\ streamId' = uuidv4
    /\ isStreaming' = FlagAfterCreate(resp)
    /\ IF resp.ok
         THEN /\ streamUrl' = resp.out
              /\ svc' = [svc EXCEPT !.created = @ \cup {uuidv4},
                                    !.lastId = uuidv4, !.lastUrl = resp.out]
              /\ last' = Call("stream.start", 0, NoError, resp.out,
                              <<Req("POST /stream", uuidv4, <<>>, resp)>>, StreamPre)
         ELSE /\ UNCHANGED <<streamUrl, svc>>
              /\ last' = Call("stream.start", 0, StreamError, "none",
                              <<Req("POST /stream", uuidv4, <<>>, resp)>>, StreamPre)
    /\ UNCHANGED recordVars
    /\ UNCHANGED <<sandboxVars, fileVars, starting, awaiting>>

StreamStart == StreamStartExisting \/ \E resp \in CreateResponses : StreamStartRequest(resp)

\* stop(): `if (!this.isStreaming) return true`
StopIsNoop == ~isStreaming

StreamStopIdle ==
    /\ StopIsNoop
    /\ last' = Call("stream.stop", 0, NoError, TRUE, <<>>, StreamPre)
    /\ UNCHANGED <<streamVars, recordVars, uuid, svc>>
    /\ UNCHANGED <<sandboxVars, fileVars, starting, awaiting>>

\* Mutant: stop() naming the id generated before the stored one
TeardownOfPreviousId == streamId - 1

\* stop(): the stream the DELETE names, `/stream/${this.streamId}`
TeardownTarget == streamId

\* stop() while streaming: the flag and the URL are cleared after the DELETE
\* resolved (its body is not looked at); a DELETE that throws skips both
\* assignments. streamId is kept either way.
StreamStopRequest(reply) ==
    /\ ~StopIsNoop
    /\ svc' = [svc EXCEPT !.deleted = @ \cup {TeardownTarget}]
    /\ IF reply.ok
         THEN /\ isStreaming' = FALSE
              /\ streamUrl' = "null"
              /\ last' = Call("stream.stop", 0, NoError, TRUE,
                              <<Req("DELETE /stream", TeardownTarget, <<>>, reply)>>, StreamPre)
         ELSE /\ UNCHANGED <<isStreaming, streamUrl>>
              /\ last' = Call("stream.stop", 0, StreamError, "none",
                              <<Req("DELETE /stream", TeardownTarget, <<>>, reply)>>, StreamPre)
    /\ UNCHANGED <<streamId, recordVars, uuid>>
    /\ UNCHANGED <<sandboxVars, fileVars, starting, awaiting>>

StreamStop == StreamStopIdle \/ \E reply \in {Ok("done"), Throws} : StreamStopRequest(reply)

\* Mutant: getStatus() / updateSettings() without their guard
NoActiveStreamIgnored == FALSE

\* getStatus() / updateSettings(): `!this.isStreaming || !this.streamId`
NoActiveStream == ~isStreaming \/ streamId = 0

StreamGetStatusIdle ==
    /\ NoActiveStream
    /\ last' = Call("stream.getStatus", 0, NoError, [isStreaming |-> FALSE], <<>>, StreamPre)
    /\ UNCHANGED <<streamVars, recordVars, uuid, svc>>
    /\ UNCHANGED <<sandboxVars, fileVars, starting, awaiting>>

\* getStatus() while streaming: the status reply is projected; `active` is
\* what the service reports
StreamGetStatusRequest(reply) ==
    /\ ~NoActiveStream
    /\ last' = Call("stream.getStatus", 0,
                    IF reply.ok THEN NoError ELSE StreamError,
                    IF reply.ok THEN [isStreaming |-> reply.out] ELSE "none",
                    <<Req("GET /stream/status", streamId, <<>>, reply)>>, StreamPre)
    /\ UNCHANGED <<streamVars, recordVars, uuid, svc>>
    /\ UNCHANGED <<sandboxVars, fileVars, starting, awaiting>>

StreamGetStatus ==
    StreamGetStatusIdle \/ \E reply \in {Ok(TRUE), Ok(FALSE), ThrowsOf(FALSE)} : StreamGetStatusRequest(reply)

\* updateSettings() with no active stream: the StreamError thrown inside the
\* try block is caught and wrapped in another StreamError
StreamUpdateSettingsIdle ==
    /\ NoActiveStream
    /\ last' = Call("stream.updateSettings", 0, StreamError, "none", <<>>, StreamPre)
    /\ UNCHANGED <<streamVars, recordVars, uuid, svc>>
    /\ UNCHANGED <<sandboxVars, fileVars, starting, awaiting>>

StreamUpdateSettingsRequest(reply) ==
    /\ ~NoActiveStream
    /\ last' = Call("stream.updateSettings", 0,
                    IF reply.ok THEN NoError ELSE StreamError,
                    IF reply.ok THEN TRUE ELSE "none",
                    <<Req("PUT /stream", streamId, <<>>, reply)>>, StreamPre)
    /\ UNCHANGED <<streamVars, recordVars, uuid, svc>>
    /\ UNCHANGED <<sandboxVars, fileVars, starting, awaiting>>

StreamUpdateSettings ==
    StreamUpdateSettingsIdle \/ \E reply \in {Ok("done"), Throws} : StreamUpdateSettingsRequest(reply)

NextStream == StreamStart \/ StreamStop \/ StreamGetStatus \/ StreamUpdateSettings

----------------------------------------------------------------------------
(* StreamManager.start() called again before an earlier call resolved: the  *)
(* call is split at its await                                               *)

\* The URL the service gives the stream created under `id`: consecutive
\* streams get different URLs
UrlOf(id) == IF id % 2 = 1 THEN "u1" ELSE "u2"

\* What the creation request of the call that stored `id` can do
LandResponses(id) == {Ok(UrlOf(id)), Throws}

\* start() up to `await this.sandbox.apiClient.post('/stream', ...)`: the flag
\* is still false while an earlier call awaits, so the early return does not
\* apply; the id is generated and stored, the request is issued
StreamStartCall ==
    /\ ~StartReturnsExisting
    /\ uuid < MaxUuid
    /\ uuid' = uuidv4
    /\ streamId' = uuidv4
    /\ starting' = starting \cup {uuidv4}
    /\ UNCHANGED <<streamUrl, isStreaming, recordVars, svc, sandboxVars, fileVars, awaiting, last>>

\* start() from its await on: the response of the call that sent `id` lands;
\* the URL and the flag are stored, streamId is whatever the latest call
\* stored
StreamStartLand(id, resp) ==
    /\ id \in starting
    /\ starting' = starting \ {id}
    /\ isStreaming' = FlagAfterCreate(resp)
    /\ IF resp.ok
         THEN /\ streamUrl' = resp.out
              /\ svc' = [svc EXCEPT !.created = @ \cup {id},
                                    !.lastId = id, !.lastUrl = resp.out]
              /\ last' = Call("stream.start", 0, NoError, resp.out,
                              <<Req("POST /stream", id, <<>>, resp)>>, StreamPre)
         ELSE /\ UNCHANGED <<streamUrl, svc>>
              /\ last' = Call("stream.start", 0, StreamError, "none",
                              <<Req("POST /stream", id, <<>>, resp)>>, StreamPre)
    /\ UNCHANGED <<streamId, recordVars, uuid, sandboxVars, fileVars, awaiting>>

NextStreamRace ==
    \/ StreamStartExisting
    \/ StreamStartCall
    \/ (\E id \in starting : \E resp \in LandResponses(id) : StreamStartLand(id, resp))
    \/ StreamStop \/ StreamGetStatus \/ StreamUpdateSettings


----------------------------------------------------------------------------
(* FileManager helpers the record manager delegates to *)

\* What `[ -e path ] && echo "exists" || echo "not exists"` can print.
ExistsOutputs == {"exists", "exists\n", " exists", "not exists", "not exists\n", ""}

\* String.prototype.trim on the outputs above
Trim(s) ==
    CASE s = "exists\n" -> "exists"
      [] s = " exists" -> "exists"
      [] s = "not exists\n" -> "not exists"
      [] OTHER -> s

\* fileExists(): `output.trim() === 'exists'`
FileExists(output) == Trim(output) = "exists"

----------------------------------------------------------------------------
(* RecordManager *)

\* The fixed settle delay of stop(), in milliseconds (setTimeout(resolve, 2000)).
SettleMs == 2000

RecordPre ==
    [isRecording |-> isRecording, recordingId |-> recordingId,
     recordingStartTime |-> recordingStartTime, issued |-> uuid]

ShellReplies == {Ok("done"), Throws}

\* Mutant: start() without its early return
StartNeverReturnsRecording == FALSE

\* start(): `if (this.isRecording) return this.recordingId`
StartReturnsRecording == isRecording

RecordStartExisting ==
    /\ StartReturnsRecording
    /\ last' = Call("record.start", 0, NoError, recordingId, <<>>, RecordPre)
    /\ UNCHANGED <<streamVars, recordVars, uuid, svc>>
    /\ UNCHANGED <<sandboxVars, fileVars, starting, awaiting>>

\* start() when not recording: the id is generated and stored before the
\* screenrecord command; the flag and the start time (`new Date()`, read as
\* `now`) only after it resolved.
RecordStartRequest(reply, now) ==
    /\ ~StartReturnsRecording
    /\ uuid < MaxUuid
    /\ uuid' = uuidv4
    /\ recordingId' = uuidv4
    /\ IF reply.ok
         THEN /\ isRecording' = TRUE
              /\ recordingStartTime' = now
              /\ svc' = [svc EXCEPT !.recorded = @ \cup {uuidv4}]
              /\ last' = Call("record.start", 0, NoError, uuidv4,
                              <<Req("shell screenrecord", uuidv4, <<>>, reply)>>, RecordPre)
         ELSE /\ UNCHANGED <<isRecording, recordingStartTime, svc>>
              /\ last' = Call("record.start", 0, RecordingError, "none",
                              <<Req("shell screenrecord", uuidv4, <<>>, reply)>>, RecordPre)
    /\ UNCHANGED streamVars
    /\ UNCHANGED <<sandboxVars, fileVars, starting, awaiting>>

RecordStart ==
    RecordStartExisting \/ \E reply \in ShellReplies, now \in Timestamps : RecordStartRequest(reply, now)

\* Mutant: stop() without its precondition
StopNeverRejects == FALSE

\* stop(): `if (!this.isRecording) throw new RecordingError(...)`
StopRejects == ~isRecording

RecordStopNotRecording ==
    /\ StopRejects
    /\ last' = Call("record.stop", 0, RecordingError, "none", <<>>, RecordPre)
    /\ UNCHANGED <<streamVars, recordVars, uuid, svc>>
    /\ UNCHANGED <<sandboxVars, fileVars, starting, awaiting>>

\* stop() while recording and the interrupt command throws
RecordStopInterruptFails ==
    /\ ~StopRejects
    /\ last' = Call("record.stop", 0, RecordingError, "none",
                    <<Req("shell pkill -INT", 0, <<>>, Throws)>>, RecordPre)
    /\ UNCHANGED <<streamVars, recordVars, uuid, svc>>
    /\ UNCHANGED <<sandboxVars, fileVars, starting, awaiting>>

\* Mutant: stop() leaving the flag as it was
FlagKeptAfterSettle == isRecording

\* stop(): `this.isRecording = false` once the settle delay is over, before
\* the existence check
FlagAfterSettle == FALSE

\* What the existence check can be answered: a printed line, or a throw
ExistsReplies == {Ok(o) : o \in ExistsOutputs} \cup {Throws}

\* stop() while recording, interrupt sent: settle delay, flag cleared, then
\* the existence check; the path is returned when the artifact is reported.
RecordStopInterrupted(reply) ==
    LET found == reply.ok /\ FileExists(reply.out) IN
    /\ ~StopRejects
    /\ isRecording' = FlagAfterSettle
    /\ last' = Call("record.stop", 0,
                    IF found THEN NoError ELSE RecordingError,
                    IF found THEN recordingId ELSE "none",
                    <<Req("shell pkill -INT", 0, <<>>, Ok("done")),
                      Req("wait", SettleMs, <<>>, Ok("done")),
                      Req("shell [ -e ]", recordingId, <<>>, reply)>>, RecordPre)
    /\ UNCHANGED <<streamVars, recordingId, recordingStartTime, uuid, svc>>
    /\ UNCHANGED <<sandboxVars, fileVars, starting, awaiting>>

RecordStop ==
    \/ RecordStopNotRecording
    \/ RecordStopInterruptFails
    \/ \E reply \in ExistsReplies : RecordStopInterrupted(reply)

\* saveRecording(): the two preconditions checked before the pull
SaveRejects == isRecording \/ recordingId = 0

SaveRecordingRejected ==
    /\ SaveRejects
    /\ last' = Call("record.saveRecording", 0, RecordingError, "none", <<>>, RecordPre)
    /\ UNCHANGED <<streamVars, recordVars, uuid, svc>>
    /\ UNCHANGED <<sandboxVars, fileVars, starting, awaiting>>

\* saveRecording() delegating to pullFile('/sdcard/recording_<id>.mp4', localPath);
\* a FileError of pullFile is caught and wrapped
SaveRecordingPull(reply) ==
    /\ ~SaveRejects
    /\ last' = Call("record.saveRecording", 0,
                    IF reply.ok THEN NoError ELSE RecordingError,
                    IF reply.ok THEN TRUE ELSE "none",
                    <<Req("GET /files/pull", recordingId, <<>>, reply)>>, RecordPre)
    /\ UNCHANGED <<streamVars, recordVars, uuid, svc>>
    /\ UNCHANGED <<sandboxVars, fileVars, starting, awaiting>>

SaveRecording == SaveRecordingRejected \/ \E reply \in ShellReplies : SaveRecordingPull(reply)

\* getStatus(): synchronous projection of the fields, with the elapsed time
\* (`new Date()`, read as `now`, minus the start time) while recording;
\* duration "none" stands for a status without a duration
RecordGetStatus(now) ==
    /\ last' = Call("record.getStatus", 0, NoError,
                    IF ~isRecording /\ recordingId = 0
                      THEN [isRecording |-> FALSE, recordingId |-> 0, duration |-> "none"]
                      ELSE [isRecording |-> isRecording, recordingId |-> recordingId,
                            duration |-> IF isRecording /\ recordingStartTime # -1
                                           THEN <<now - recordingStartTime>> ELSE "none"],
                    <<>>, RecordPre)
    /\ UNCHANGED <<streamVars, recordVars, uuid, svc>>
    /\ UNCHANGED <<sandboxVars, fileVars, starting, awaiting>>

\* deleteRecording(recordingId = this.recordingId): arg -1 is an omitted
\* argument (the default applies), 0 an explicit null, n > 0 an id.
DeleteTarget(arg, tracked) == IF arg = -1 THEN tracked ELSE arg

DeleteArgs == -1 .. MaxUuid

\* Mutant: deleteRecording() without its check for the active recording
DeleteRejectsNullOnly(id) == id = 0

\* `if (!recordingId) throw` and `if (this.isRecording && recordingId === this.recordingId) throw`
DeleteRejects(id) == id = 0 \/ (isRecording /\ id = recordingId)

DeleteRecordingRejected(arg) ==
    /\ DeleteRejects(DeleteTarget(arg, recordingId))
    /\ last' = Call("record.deleteRecording", arg, RecordingError, "none", <<>>, RecordPre)
    /\ UNCHANGED <<streamVars, recordVars, uuid, svc>>
    /\ UNCHANGED <<sandboxVars, fileVars, starting, awaiting>>

\* Mutant: deleteRecording() forgetting the tracked id whatever it deleted
ForgetsAlways(id) == TRUE

\* deleteRecording(): `if (recordingId === this.recordingId) this.recordingId = null`
ForgetsTracked(id) == id = recordingId

\* deleteRecording() delegating to deleteFile (`rm -f`), then forgetting the
\* tracked id when it was the one deleted; a FileError is caught and wrapped.
DeleteRecordingRequest(arg, reply) ==
    LET id == DeleteTarget(arg, recordingId) IN
    /\ ~DeleteRejects(id)
    /\ recordingId' = IF reply.ok /\ ForgetsTracked(id) THEN 0 ELSE recordingId
    /\ last' = Call("record.deleteRecording", arg,
                    IF reply.ok THEN NoError ELSE RecordingError,
                    IF reply.ok THEN TRUE ELSE "none",
                    <<Req("shell rm -f", id, <<>>, reply)>>, RecordPre)
    /\ UNCHANGED <<streamVars, isRecording, recordingStartTime, uuid, svc>>
    /\ UNCHANGED <<sandboxVars, fileVars, starting, awaiting>>

DeleteRecording ==
    \E arg \in DeleteArgs :
        DeleteRecordingRejected(arg) \/ \E reply \in ShellReplies : DeleteRecordingRequest(arg, reply)

NextRecord ==
    \/ RecordStart \/ RecordStop \/ SaveRecording \/ DeleteRecording
    \/ \E now \in Timestamps : RecordGetStatus(now)

(* The same operations issued without waiting for one another: each call runs
   up to its await, and resumes when the command it awaits is answered. A
   call identical to one still suspended is not issued. *)

\* A recorder call suspended at its await; `id` is the id it read before
Suspended(op, id) == [op |-> op, id |-> id]

\* start() up to `await this.sandbox.executeShellCommand(screenrecord ...)`:
\* the id is generated and stored, the command is issued
RecordStartCall ==
    /\ ~StartReturnsRecording
    /\ uuid < MaxUuid
    /\ uuid' = uuidv4
    /\ recordingId' = uuidv4
    /\ awaiting' = awaiting \cup {Suspended("start", uuidv4)}
    /\ UNCHANGED <<streamVars, isRecording, recordingStartTime, svc, sandboxVars,
                   fileVars, starting, last>>

\* start() from its await on: the flag and the start time are stored and
\* `this.recordingId`, as it is now, is returned
RecordStartLand(c, reply, now) ==
    /\ c \in awaiting /\ c.op = "start"
    /\ awaiting' = awaiting \ {c}
    /\ IF reply.ok
         THEN /\ isRecording' = TRUE
              /\ recordingStartTime' = now
              /\ svc' = [svc EXCEPT !.recorded = @ \cup {c.id}]
              /\ last' = Call("record.start", 0, NoError, recordingId,
                              <<Req("shell screenrecord", c.id, <<>>, reply)>>, RecordPre)
         ELSE /\ UNCHANGED <<isRecording, recordingStartTime, svc>>
              /\ last' = Call("record.start", 0, RecordingError, "none",
                              <<Req("shell screenrecord", c.id, <<>>, reply)>>, RecordPre)
    /\ UNCHANGED <<streamVars, recordingId, uuid, sandboxVars, fileVars, starting>>

\* stop() up to the end of its settle delay: the interrupt was sent and
\* answered
RecordStopCall ==
    /\ ~StopRejects
    /\ Suspended("stop", 0) \notin awaiting
    /\ awaiting' = awaiting \cup {Suspended("stop", 0)}
    /\ UNCHANGED <<streamVars, recordVars, uuid, svc, sandboxVars, fileVars, starting, last>>

\* stop() from the end of the settle delay on: the flag is cleared, the path
\* is built from `this.recordingId` as it is now and checked
RecordStopSettle(c, reply) ==
    LET found == reply.ok /\ FileExists(reply.out) IN
    /\ c \in awaiting /\ c.op = "stop"
    /\ awaiting' = awaiting \ {c}
    /\ isRecording' = FlagAfterSettle
    /\ last' = Call("record.stop", 0,
                    IF found THEN NoError ELSE RecordingError,
                    IF found THEN recordingId ELSE "none",
                    <<Req("shell pkill -INT", 0, <<>>, Ok("done")),
                      Req("wait", SettleMs, <<>>, Ok("done")),
                      Req("shell [ -e ]", recordingId, <<>>, reply)>>, RecordPre)
    /\ UNCHANGED <<streamVars, recordingId, recordingStartTime, uuid, svc>>
    /\ UNCHANGED <<sandboxVars, fileVars, starting>>

\* deleteRecording() up to `await this.sandbox.files.deleteFile(...)`: both
\* checks passed for the id the call was given
RecordDeleteCall(arg) ==
    LET id == DeleteTarget(arg, recordingId) IN
    /\ ~DeleteRejects(id)
    /\ Suspended("delete", id) \notin awaiting
    /\ awaiting' = awaiting \cup {Suspended("delete", id)}
    /\ UNCHANGED <<streamVars, recordVars, uuid, svc, sandboxVars, fileVars, starting, last>>

\* deleteRecording() from its await on: the tracked id is forgotten when it
\* is, now, the id that was deleted
RecordDeleteLand(c, reply) ==
    /\ c \in awaiting /\ c.op = "delete"
    /\ awaiting' = awaiting \ {c}
    /\ recordingId' = IF reply.ok /\ ForgetsTracked(c.id) THEN 0 ELSE recordingId
    /\ last' = Call("record.deleteRecording", c.id,
                    IF reply.ok THEN NoError ELSE RecordingError,
                    IF reply.ok THEN TRUE ELSE "none",
                    <<Req("shell rm -f", c.id, <<>>, reply)>>, RecordPre)
    /\ UNCHANGED <<streamVars, isRecording, recordingStartTime, uuid, svc>>
    /\ UNCHANGED <<sandboxVars, fileVars, starting>>

NextRecordRace ==
    \/ RecordStartExisting
    \/ RecordStartCall
    \/ RecordStopNotRecording
    \/ RecordStopInterruptFails
    \/ RecordStopCall
    \/ (\E arg \in DeleteArgs : DeleteRecordingRejected(arg) \/ RecordDeleteCall(arg))
    \/ (\E c \in awaiting, reply \in ShellReplies, now \in Timestamps : RecordStartLand(c, reply, now))
    \/ (\E c \in awaiting, reply \in ExistsReplies : RecordStopSettle(c, reply))
    \/ (\E c \in awaiting, reply \in ShellReplies : RecordDeleteLand(c, reply))

----------------------------------------------------------------------------
(* AppManager: no local state, every answer comes from a shell command *)

\* Package names, as character sequences
Packages == { <<"a">>, <<"a", "b">> }

\* What `pm list packages <pkg>` can print; "P" stands for the text "package:"
ListOutputs ==
    { <<>>, <<"P", "a">>, <<"P", "a", "b">>, <<"P", "a", "\n", "P", "a", "b">> }

\* String.prototype.includes
Includes(hay, needle) ==
    \E i \in 1 .. (Len(hay) - Len(needle) + 1) :
        SubSeq(hay, i, i + Len(needle) - 1) = needle

\* isInstalled(): `output.includes(`package:${packageName}`)`
InstalledIn(output, pkg) == Includes(output, <<"P">> \o pkg)

\* What `cmd package resolve-activity --brief <pkg>` can print, as lines of
\* whitespace-separated tokens
ResolveOutputs ==
    { <<>>,
      << <<"a/.Main">> >>,
      << <<"priority=0", "preferredOrder=0">>, <<"a/.Main">> >>,
      << <<"No", "activity", "found">> >>,
      << <<>>, <<"b/.Main">> >> }

\* output.match(/^\s*([^\s]+)\s*$/m): the first line that holds exactly one
\* token; "none" when there is no such line (match is null)
MatchActivity(output) ==
    IF \E i \in DOMAIN output : Len(output[i]) = 1
      THEN LET i == CHOOSE k \in DOMAIN output :
                      /\ Len(output[k]) = 1
                      /\ \A j \in 1 .. (k - 1) : Len(output[j]) # 1
           IN output[i][1]
      ELSE "none"

ListReplies == {Ok(o) : o \in ListOutputs} \cup {ThrowsOf(<<>>)}

ResolveReplies == {Ok(o) : o \in ResolveOutputs} \cup {ThrowsOf(<<>>)}

\* isInstalled(): a throwing shell command is wrapped in AppError
AppIsInstalled(pkg, r) ==
    /\ last' = Call("apps.isInstalled", pkg,
                    IF r.ok THEN NoError ELSE AppError,
                    IF r.ok THEN InstalledIn(r.out, pkg) ELSE "none",
                    <<Req("shell pm list packages", 0, pkg, r)>>, "none")
    /\ UNCHANGED <<streamVars, recordVars, uuid, svc>>
    /\ UNCHANGED <<sandboxVars, fileVars, starting, awaiting>>

\* Mutant: launch() without its install check
LaunchNeverRejects(installed) == FALSE

\* launch(): `if (!await this.isInstalled(packageName)) throw new AppError(...)`
LaunchRejects(installed) == ~installed

\* launch() whose install check throws or is rejected
AppLaunchNotInstalled(pkg, r) ==
    /\ ~r.ok \/ LaunchRejects(InstalledIn(r.out, pkg))
    /\ last' = Call("apps.launch", pkg, AppError, "none",
                    <<Req("shell pm list packages", 0, pkg, r)>>, "none")
    /\ UNCHANGED <<streamVars, recordVars, uuid, svc>>
    /\ UNCHANGED <<sandboxVars, fileVars, starting, awaiting>>

\* Mutant: launch() without its check of the match
UnresolvedNever(match) == FALSE

\* launch(): `if (!match || !match[1]) throw new AppError(...)`
Unresolved(match) == match = "none"

\* launch() past the install check whose activity cannot be resolved: the
\* resolve command throws, or its output has no single-token line
AppLaunchUnresolved(pkg, r, res) ==
    /\ r.ok /\ ~LaunchRejects(InstalledIn(r.out, pkg))
    /\ ~res.ok \/ Unresolved(MatchActivity(res.out))
    /\ last' = Call("apps.launch", pkg, AppError, "none",
                    <<Req("shell pm list packages", 0, pkg, r),
                      Req("shell resolve-activity", 0, pkg, res)>>, "none")
    /\ UNCHANGED <<streamVars, recordVars, uuid, svc>>
    /\ UNCHANGED <<sandboxVars, fileVars, starting, awaiting>>

\* launch() past the install check with the activity resolved: `am start -n`
AppLaunchStart(pkg, r, res, start) ==
    /\ r.ok /\ ~LaunchRejects(InstalledIn(r.out, pkg))
    /\ res.ok /\ ~Unresolved(MatchActivity(res.out))
    /\ last' = Call("apps.launch", pkg,
                    IF start.ok THEN NoError ELSE AppError,
                    IF start.ok THEN TRUE ELSE "none",
                    <<Req("shell pm list packages", 0, pkg, r),
                      Req("shell resolve-activity", 0, pkg, res),
                      Req("shell am start -n", 0, <<MatchActivity(res.out)>>, start)>>, "none")
    /\ UNCHANGED <<streamVars, recordVars, uuid, svc>>
    /\ UNCHANGED <<sandboxVars, fileVars, starting, awaiting>>

AppLaunch ==
    \E pkg \in Packages, r \in ListReplies :
        \/ AppLaunchNotInstalled(pkg, r)
        \/ \E res \in ResolveReplies :
              \/ AppLaunchUnresolved(pkg, r, res)
              \/ \E start \in ShellReplies : AppLaunchStart(pkg, r, res, start)

\* The fixed wait of install() after the market intent, in milliseconds
MarketWaitMs == 15000

\* Mutant: install() falling back to the market whatever the check says
InstallAlwaysFallsBack(installed) == TRUE

\* install(): `if (!isInstalled) { market intent; fixed wait }`
InstallFallsBack(installed) == ~installed

\* install() whose install-existing command throws
AppInstallExistingFails(pkg) ==
    /\ last' = Call("apps.install", pkg, AppError, "none",
                    <<Req("shell pm install-existing", 0, pkg, ThrowsOf(<<>>))>>, "none")
    /\ UNCHANGED <<streamVars, recordVars, uuid, svc>>
    /\ UNCHANGED <<sandboxVars, fileVars, starting, awaiting>>

\* install() whose check after install-existing throws
AppInstallCheckFails(pkg, r) ==
    /\ ~r.ok
    /\ last' = Call("apps.install", pkg, AppError, "none",
                    <<Req("shell pm install-existing", 0, pkg, Ok(<<>>)),
                      Req("shell pm list packages", 0, pkg, r)>>, "none")
    /\ UNCHANGED <<streamVars, recordVars, uuid, svc>>
    /\ UNCHANGED <<sandboxVars, fileVars, starting, awaiting>>

\* install() of a package install-existing made present: no fallback, the
\* value returned is that of a second check
AppInstallExisting(pkg, r, r2) ==
    /\ r.ok /\ ~InstallFallsBack(InstalledIn(r.out, pkg))
    /\ last' = Call("apps.install", pkg,
                    IF r2.ok THEN NoError ELSE AppError,
                    IF r2.ok THEN InstalledIn(r2.out, pkg) ELSE "none",
                    <<Req("shell pm install-existing", 0, pkg, Ok(<<>>)),
                      Req("shell pm list packages", 0, pkg, r),
                      Req("shell pm list packages", 0, pkg, r2)>>, "none")
    /\ UNCHANGED <<streamVars, recordVars, uuid, svc>>
    /\ UNCHANGED <<sandboxVars, fileVars, starting, awaiting>>

\* install() falling back to the market intent, which throws
AppInstallMarketFails(pkg, r) ==
    /\ r.ok /\ InstallFallsBack(InstalledIn(r.out, pkg))
    /\ last' = Call("apps.install", pkg, AppError, "none",
                    <<Req("shell pm install-existing", 0, pkg, Ok(<<>>)),
                      Req("shell pm list packages", 0, pkg, r),
                      Req("shell am start market", 0, pkg, ThrowsOf(<<>>))>>, "none")
    /\ UNCHANGED <<streamVars, recordVars, uuid, svc>>
    /\ UNCHANGED <<sandboxVars, fileVars, starting, awaiting>>

\* install() falling back to the market intent: the intent, the fixed wait,
\* then the check whose value is returned
AppInstallMarket(pkg, r, r2) ==
    /\ r.ok /\ InstallFallsBack(InstalledIn(r.out, pkg))
    /\ last' = Call("apps.install", pkg,
                    IF r2.ok THEN NoError ELSE AppError,
                    IF r2.ok THEN InstalledIn(r2.out, pkg) ELSE "none",
                    <<Req("shell pm install-existing", 0, pkg, Ok(<<>>)),
                      Req("shell pm list packages", 0, pkg, r),
                      Req("shell am start market", 0, pkg, Ok(<<>>)),
                      Req("wait", MarketWaitMs, <<>>, Ok(<<>>)),
                      Req("shell pm list packages", 0, pkg, r2)>>, "none")
    /\ UNCHANGED <<streamVars, recordVars, uuid, svc>>
    /\ UNCHANGED <<sandboxVars, fileVars, starting, awaiting>>

AppInstall ==
    \E pkg \in Packages :
        \/ AppInstallExistingFails(pkg)
        \/ \E r \in ListReplies :
              \/ AppInstallCheckFails(pkg, r)
              \/ AppInstallMarketFails(pkg, r)
              \/ \E r2 \in ListReplies :
                    AppInstallExisting(pkg, r, r2) \/ AppInstallMarket(pkg, r, r2)

\* Mutant: uninstall() without its early return
UninstallNeverNoop(installed) == FALSE

\* uninstall(): `if (!await this.isInstalled(packageName)) return true`
UninstallIsNoop(installed) == ~installed

\* uninstall() whose install check throws, or reports the package absent
AppUninstallCheck(pkg, r) ==
    /\ ~r.ok \/ UninstallIsNoop(InstalledIn(r.out, pkg))
    /\ last' = Call("apps.uninstall", pkg,
                    IF r.ok THEN NoError ELSE AppError,
                    IF r.ok THEN TRUE ELSE "none",
                    <<Req("shell pm list packages", 0, pkg, r)>>, "none")
    /\ UNCHANGED <<streamVars, recordVars, uuid, svc>>
    /\ UNCHANGED <<sandboxVars, fileVars, starting, awaiting>>

\* uninstall() of an installed package whose `pm uninstall` throws
AppUninstallFails(pkg, r) ==
    /\ r.ok /\ ~UninstallIsNoop(InstalledIn(r.out, pkg))
    /\ last' = Call("apps.uninstall", pkg, AppError, "none",
                    <<Req("shell pm list packages", 0, pkg, r),
                      Req("shell pm uninstall", 0, pkg, Throws)>>, "none")
    /\ UNCHANGED <<streamVars, recordVars, uuid, svc>>
    /\ UNCHANGED <<sandboxVars, fileVars, starting, awaiting>>

\* uninstall() of an installed package: `pm uninstall`, then a fresh check
AppUninstallRun(pkg, r, r2) ==
    /\ r.ok /\ ~UninstallIsNoop(InstalledIn(r.out, pkg))
    /\ last' = Call("apps.uninstall", pkg,
                    IF r2.ok THEN NoError ELSE AppError,
                    IF r2.ok THEN ~InstalledIn(r2.out, pkg) ELSE "none",
                    <<Req("shell pm list packages", 0, pkg, r),
                      Req("shell pm uninstall", 0, pkg, Ok(<<>>)),
                      Req("shell pm list packages", 0, pkg, r2)>>, "none")
    /\ UNCHANGED <<streamVars, recordVars, uuid, svc>>
    /\ UNCHANGED <<sandboxVars, fileVars, starting, awaiting>>

AppUninstall ==
    \E pkg \in Packages, r \in ListReplies :
        \/ AppUninstallCheck(pkg, r)
        \/ AppUninstallFails(pkg, r)
        \/ \E r2 \in ListReplies : AppUninstallRun(pkg, r, r2)

NextApp ==
    \/ (\E pkg \in Packages, r \in ListReplies : AppIsInstalled(pkg, r))
    \/ AppInstall \/ AppLaunch \/ AppUninstall

----------------------------------------------------------------------------
(* AndroidSandbox: construction, provisioning and release *)

ApiKeyError == AirTapError("ApiKeyError")

ConnectionError == AirTapError("ConnectionError")

\* What the caller can pass as options.api_key (null is the default)
OptionKeys == {"null", "", "k1"}

\* What process.env.AIRTAP_API_KEY can read
EnvKeys == {"undefined", "", "k2"}

\* JavaScript truthiness of the values the model handles
Falsy(v) == v \in {"null", "undefined", ""}

\* a || b
OrElse(a, b) == IF Falsy(a) THEN b ELSE a

\* Identifiers the service hands out
DeviceIds == {"d1", "d2"}

\* An axios call resolves with a response (any 2xx status, default
\* validateStatus), or rejects: with the response of another status, with no
\* response received, or before the request was sent. `data` is the one field
\* of the body the caller reads ("undefined" when the body lacks it).
AxiosResolved(status, data) == [kind |-> "resolved", status |-> status, data |-> data]

AxiosRejected(kind, status) == [kind |-> kind, status |-> status, data |-> "undefined"]

AxiosFailures ==
    {AxiosRejected("response", 500), AxiosRejected("request", 0), AxiosRejected("setup", 0)}

\* The caller issues sandbox calls one at a time
SandboxIdle == polling.pc = "idle"

SandboxPre == [api_key |-> api_key, device_id |-> device_id,
               streamVars |-> streamVars, recordVars |-> recordVars]

\* constructor: this.api_key = api_key || process.env.AIRTAP_API_KEY
ResolveApiKey(opt, env) == OrElse(opt, env)

\* Mutant: a constructor that accepts a missing key
ConstructorNeverRejects(key) == FALSE

\* constructor: if (!this.api_key) throw new ApiKeyError(...)
ConstructorRejects(key) == Falsy(key)

\* create() without a usable key: the constructor throws, no object exists
\* and _initializeDevice() is never reached
SandboxCreateNoKey(opt, env) ==
    /\ SandboxIdle
    /\ ConstructorRejects(ResolveApiKey(opt, env))
    /\ last' = Call("create", <<opt, env>>, ApiKeyError, "none", <<>>, SandboxPre)
    /\ UNCHANGED <<streamVars, recordVars, uuid, svc, sandboxVars, fileVars, starting, awaiting>>

CreatedStatus == 201

\* What POST /devices can answer or fail with
ProvisionReplies ==
    {AxiosResolved(st, d) : st \in {200, CreatedStatus}, d \in DeviceIds \cup {"undefined", ""}}
        \cup AxiosFailures

\* Mutant: any resolved response provisions
ProvisionedByAny(reply) == reply.kind = "resolved"

\* _initializeDevice(): the response that stores an identifier
Provisioned(reply) ==
    /\ reply.kind = "resolved"
    /\ reply.status = CreatedStatus
    /\ ~Falsy(reply.data)

\* Mutant: storing an identifier other than the returned one
StoredIdOfFirstDevice(reply) == "d1"

\* this._device_id = device_id
StoredId(reply) == reply.data

\* create() with a key: the constructor builds fresh managers and a null
\* _device_id, _initializeDevice() draws a session id and posts; every path
\* that does not store the identifier ends in `throw new ConnectionError`
\* (the errors thrown inside the try block are caught and rethrown as
\* ConnectionError by the last branch of the catch block).
SandboxCreateProvision(opt, env, reply) ==
    /\ SandboxIdle
    /\ ~ConstructorRejects(ResolveApiKey(opt, env))
    /\ uuid < MaxUuid
    /\ api_key' = ResolveApiKey(opt, env)
    /\ streamId' = 0 /\ streamUrl' = "null" /\ isStreaming' = FALSE
    /\ recordingId' = 0 /\ isRecording' = FALSE /\ recordingStartTime' = -1
    /\ uuid' = uuidv4
    /\ IF Provisioned(reply)
         THEN /\ device_id' = StoredId(reply)
              /\ last' = Call("create", <<opt, env>>, NoError, StoredId(reply),
                              <<Req("POST /devices", "none", uuidv4, reply)>>, SandboxPre)
         ELSE /\ device_id' = "null"
              /\ last' = Call("create", <<opt, env>>, ConnectionError, "none",
                              <<Req("POST /devices", "none", uuidv4, reply)>>, SandboxPre)
    /\ UNCHANGED <<svc, clock, polling, fileVars, starting, awaiting>>

SandboxCreate ==
    \E opt \in OptionKeys, env \in EnvKeys :
        \/ SandboxCreateNoKey(opt, env)
        \/ \E reply \in ProvisionReplies : SandboxCreateProvision(opt, env, reply)

\* A session object exists
Constructed == api_key # "none"

\* What a device-scoped POST can answer or fail with
InputReplies ==
    {AxiosResolved(st, "undefined") : st \in {200, 204}} \cup AxiosFailures

\* Mutant: close() keeping the identifier when the release was not answered
IdKeptOnFailure(reply) == IF reply.kind = "resolved" THEN "null" ELSE device_id

\* Mutant: close() putting an identifier back on a released session
IdRestoredOnClose(reply) == IF device_id = "null" THEN "d1" ELSE "null"

\* close(): this._device_id = null, after the try/catch
IdAfterClose(reply) == "null"

\* close(): posts to `/devices/${this._device_id}/release`, warns on a status
\* other than 200 and 204, logs a rejection, then clears _device_id
SandboxCloseRequest(reply) ==
    /\ SandboxIdle
    /\ Constructed
    /\ device_id' = IdAfterClose(reply)
    /\ last' = Call("close", 0, NoError, "undefined",
                    <<Req("POST /devices/release", device_id, <<>>, reply)>>, SandboxPre)
    /\ UNCHANGED <<streamVars, recordVars, uuid, svc, api_key, clock, polling, fileVars, starting, awaiting>>

SandboxClose == \E reply \in InputReplies : SandboxCloseRequest(reply)

----------------------------------------------------------------------------
(* AndroidSandbox: gestures, keys, shell, screenshot *)

\* The input operations and the endpoint each posts to
Gestures == {"tap", "doubleTap", "swipe", "longPress", "pinchOut",
             "typeText", "pressKey", "pressCombo"}

Endpoint(op) ==
    CASE op = "tap"        -> "input/tap"
      [] op = "doubleTap"  -> "input/double_tap"
      [] op = "swipe"      -> "input/swipe"
      [] op = "longPress"  -> "input/long_press"
      [] op = "pinchOut"   -> "input/pinch"
      [] op = "typeText"   -> "input/text"
      [] op = "pressKey"   -> "input/key"
      [] op = "pressCombo" -> "input/combo"

\* Mutant: an input operation that lets a rejection escape
InputRaisesOnFailure(reply) ==
    IF reply.kind = "resolved" THEN NoError ELSE AirTapError("Error")

\* Every input operation wraps its request in try/catch: a status other than
\* 200 is warned about, a rejection is logged, neither is rethrown
InputRaises(reply) == NoError

\* One input operation: a single POST to
\* `/devices/${this._device_id}/<endpoint>`, built without looking at
\* _device_id; resolves with undefined
Input(op, reply) ==
    /\ SandboxIdle
    /\ Constructed
    /\ last' = Call(op, 0, InputRaises(reply), "undefined",
                    <<Req(Endpoint(op), device_id, <<>>, reply)>>, SandboxPre)
    /\ UNCHANGED <<streamVars, recordVars, uuid, svc, sandboxVars, fileVars, starting, awaiting>>

Tap == \E reply \in InputReplies : Input("tap", reply)

DoubleTap == \E reply \in InputReplies : Input("doubleTap", reply)

Swipe == \E reply \in InputReplies : Input("swipe", reply)

LongPress == \E reply \in InputReplies : Input("longPress", reply)

PinchOut == \E reply \in InputReplies : Input("pinchOut", reply)

TypeText == \E reply \in InputReplies : Input("typeText", reply)

PressKey == \E reply \in InputReplies : Input("pressKey", reply)

PressCombo == \E reply \in InputReplies : Input("pressCombo", reply)

\* What POST .../shell can answer: `data` is result.output
ShellOutputs == {"out", "", "undefined"}

ShellResponses ==
    {AxiosResolved(st, o) : st \in {200, 204}, o \in ShellOutputs} \cup AxiosFailures

\* shell(): result.output || "" on status 200, "" otherwise
ShellResult(reply) ==
    IF reply.kind = "resolved" /\ reply.status = 200
      THEN OrElse(reply.data, "")
      ELSE ""

SandboxShell(reply) ==
    /\ SandboxIdle
    /\ Constructed
    /\ last' = Call("shell", 0, NoError, ShellResult(reply),
                    <<Req("shell", device_id, <<>>, reply)>>, SandboxPre)
    /\ UNCHANGED <<streamVars, recordVars, uuid, svc, sandboxVars, fileVars, starting, awaiting>>

\* What GET .../screenshot can answer: `data` tells which field the body has
ScreenshotResponses ==
    {AxiosResolved(st, d) : st \in {200, 204}, d \in {"image_data", "image_url", "undefined"}}
        \cup AxiosFailures

\* What the download of result.image_url can answer
DownloadResponses == {AxiosResolved(st, "bytes") : st \in {200, 204}} \cup AxiosFailures

\* screenshot() with no download: the decoded image_data, an empty buffer on
\* another status or a rejection, undefined when the body has neither field
ScreenshotResult(reply) ==
    IF reply.kind = "resolved"
      THEN IF reply.status = 200
             THEN IF reply.data = "image_data" THEN "image" ELSE "undefined"
             ELSE "empty"
      ELSE "empty"

SandboxScreenshotDirect(reply) ==
    /\ SandboxIdle
    /\ Constructed
    /\ ~(reply.kind = "resolved" /\ reply.status = 200 /\ reply.data = "image_url")
    /\ last' = Call("screenshot", 0, NoError, ScreenshotResult(reply),
                    <<Req("screenshot", device_id, <<>>, reply)>>, SandboxPre)
    /\ UNCHANGED <<streamVars, recordVars, uuid, svc, sandboxVars, fileVars, starting, awaiting>>

\* screenshot() following image_url: the downloaded bytes on status 200, an
\* empty buffer otherwise (a rejected download is caught by the same catch)
SandboxScreenshotDownload(reply, download) ==
    /\ SandboxIdle
    /\ Constructed
    /\ reply.kind = "resolved" /\ reply.status = 200 /\ reply.data = "image_url"
    /\ last' = Call("screenshot", 0, NoError,
                    IF download.kind = "resolved" /\ download.status = 200
                      THEN "image" ELSE "empty",
                    <<Req("screenshot", device_id, <<>>, reply),
                      Req("GET image_url", "none", <<>>, download)>>, SandboxPre)
    /\ UNCHANGED <<streamVars, recordVars, uuid, svc, sandboxVars, fileVars, starting, awaiting>>

SandboxScreenshot ==
    \/ \E reply \in ScreenshotResponses : SandboxScreenshotDirect(reply)
    \/ \E reply \in ScreenshotResponses, download \in DownloadResponses :
          SandboxScreenshotDownload(reply, download)

----------------------------------------------------------------------------
(* AndroidSandbox.waitForApp: a polling loop, one step per await *)

MaxDrift == 1

PollWaitMs == 500

RequestTimeoutMs == 10000

\* Packages the foreground-app poll can name
WaitPackages == {"pkg.x", "pkg.y"}

\* waitForApp's package_name argument
WaitTargets == {"pkg.x"}

\* waitForApp's timeout_ms argument
WaitTimeouts == {0, 1000}

\* How long one poll can take: axios gives up after the 10000ms timeout
Latencies == {0, PollWaitMs - 1, PollWaitMs, RequestTimeoutMs}

\* How far from the requested delay two Date.now() readings around wait()
\* can be: the timer may fire late, and it runs on the event loop's clock, so
\* the wall clock can read 1ms less than the delay
Drifts == -1 .. MaxDrift

\* What GET .../current_app can answer: `data` is result.package_name
CurrentAppResponses ==
    {AxiosResolved(200, p) : p \in WaitPackages \cup {"undefined"}}
        \cup {AxiosResolved(204, "undefined")} \cup AxiosFailures

\* const end_time = Date.now() + timeout_ms; until the call returns, `last`
\* shows it as pending
WaitForAppBegin(pkg, timeout_ms) ==
    /\ SandboxIdle
    /\ Constructed
    /\ clock' = 0
    /\ polling' = [pc |-> "loop", pkg |-> pkg, timeout_ms |-> timeout_ms,
                   end_time |-> 0 + timeout_ms, reqs |-> <<>>]
    /\ last' = Call("waitForApp:pending", <<pkg, timeout_ms>>, NoError, "none", <<>>, SandboxPre)
    /\ UNCHANGED <<streamVars, recordVars, uuid, svc, api_key, device_id, fileVars, starting, awaiting>>

\* Mutant: a loop that never looks at the clock
PollAlways == TRUE

\* while (Date.now() < end_time)
PollAgain == clock < polling.end_time

\* Mutant: any answered poll ends the call
PollMatchesAnything(reply) == reply.kind = "resolved"

\* The poll that ends the call: status 200 and
\* (result.package_name || "") === package_name
PollMatches(reply) ==
    /\ reply.kind = "resolved"
    /\ reply.status = 200
    /\ OrElse(reply.data, "") = polling.pkg

\* One poll as the transport saw it
Poll(reply) == Req("current_app", device_id, <<>>, reply)

\* One iteration up to the wait: the poll is issued, answered after `latency`,
\* and a match returns true; anything else (another package, another status,
\* a rejection) goes on to the wait
WaitForAppPoll(reply, latency) ==
    /\ polling.pc = "loop"
    /\ PollAgain
    /\ IF PollMatches(reply)
         THEN /\ polling' = NotPolling
              /\ clock' = 0
              /\ last' = Call("waitForApp", <<polling.pkg, polling.timeout_ms>>, NoError, TRUE,
                              Append(polling.reqs, Poll(reply)), SandboxPre)
         ELSE /\ polling' = [polling EXCEPT !.pc = "wait",
                                           !.reqs = Append(@, Poll(reply))]
              /\ clock' = clock + latency
              /\ UNCHANGED last
    /\ UNCHANGED <<streamVars, recordVars, uuid, svc, api_key, device_id, fileVars, starting, awaiting>>

\* Mutant: half the wait between polls
PollWaitHalved == PollWaitMs \div 2

\* await this.wait(500)
PollWait == PollWaitMs

\* The wait after a poll that did not end the call, recorded among the
\* requests of the call with the delay asked for
WaitForAppWait(drift) ==
    /\ polling.pc = "wait"
    /\ clock' = clock + PollWait + drift
    /\ polling' = [polling EXCEPT !.pc = "loop",
                                  !.reqs = Append(@, Req("wait", "none", PollWait, Ok("none")))]
    /\ UNCHANGED <<streamVars, recordVars, uuid, svc, api_key, device_id, fileVars, starting, awaiting, last>>

\* The loop condition fails: return false
WaitForAppTimeout ==
    /\ polling.pc = "loop"
    /\ ~PollAgain
    /\ polling' = NotPolling
    /\ clock' = 0
    /\ last' = Call("waitForApp", <<polling.pkg, polling.timeout_ms>>, NoError, FALSE,
                    polling.reqs, SandboxPre)
    /\ UNCHANGED <<streamVars, recordVars, uuid, svc, api_key, device_id, fileVars, starting, awaiting>>

WaitForApp ==
    \/ \E pkg \in WaitTargets, timeout_ms \in WaitTimeouts : WaitForAppBegin(pkg, timeout_ms)
    \/ \E reply \in CurrentAppResponses, latency \in Latencies : WaitForAppPoll(reply, latency)
    \/ \E drift \in Drifts : WaitForAppWait(drift)
    \/ WaitForAppTimeout

NextSandbox ==
    \/ SandboxCreate \/ SandboxClose
    \/ Tap \/ DoubleTap \/ Swipe \/ LongPress \/ PinchOut \/ TypeText \/ PressKey \/ PressCombo
    \/ (\E reply \in ShellResponses : SandboxShell(reply))
    \/ SandboxScreenshot
    \/ WaitForApp

----------------------------------------------------------------------------
(* FileManager: pushFile and pullFile, with the base64 conversion *)

MaxFileLen == 3

Pad == 64

\* Byte values a local file is made of
ByteValues == {0, 97, 255}

\* Contents of a local file: byte sequences of length 0 .. MaxFileLen
FileContents == UNION {[1 .. n -> ByteValues] : n \in 0 .. MaxFileLen}

\* fileContent.toString('base64'), the last group: one or two bytes give two
\* or three sextets and '=' padding up to four characters
EncodeTail(b) ==
    CASE Len(b) = 0 -> <<>>
      [] Len(b) = 1 -> <<b[1] \div 4, (b[1] % 4) * 16, Pad, Pad>>
      [] Len(b) = 2 -> <<b[1] \div 4, (b[1] % 4) * 16 + (b[2] \div 16), (b[2] % 16) * 4, Pad>>

RECURSIVE Encode(_)
\* fileContent.toString('base64'): three bytes give four sextets
Encode(b) ==
    IF Len(b) < 3
      THEN EncodeTail(b)
      ELSE <<b[1] \div 4, (b[1] % 4) * 16 + (b[2] \div 16),
             (b[2] % 16) * 4 + (b[3] \div 64), b[3] % 64>>
             \o Encode(SubSeq(b, 4, Len(b)))

RECURSIVE UpToPad(_)
\* Buffer.from(s, 'base64') stops reading at the first '='
UpToPad(c) ==
    IF c = <<>> \/ Head(c) = Pad THEN <<>> ELSE <<Head(c)>> \o UpToPad(Tail(c))

\* Mutant: a decoder that drops an incomplete last group
DecodeTailDropped(c) == <<>>

\* Buffer.from(s, 'base64'), the last group: two sextets give one byte, three
\* give two, a single one gives none
DecodeTail(c) ==
    CASE Len(c) < 2 -> <<>>
      [] Len(c) = 2 -> <<c[1] * 4 + (c[2] \div 16)>>
      [] Len(c) = 3 -> <<c[1] * 4 + (c[2] \div 16), (c[2] % 16) * 16 + (c[3] \div 4)>>

RECURSIVE DecodeGroups(_)
\* Buffer.from(s, 'base64'): four sextets give three bytes
DecodeGroups(c) ==
    IF Len(c) < 4
      THEN DecodeTail(c)
      ELSE <<c[1] * 4 + (c[2] \div 16), (c[2] % 16) * 16 + (c[3] \div 4),
             (c[3] % 4) * 64 + c[4]>>
             \o DecodeGroups(SubSeq(c, 5, Len(c)))

Decode(c) == DecodeGroups(UpToPad(c))

\* A body of /files/pull without a `content` field
NoContent == <<-1>>

\* What POST /files/push can do
PushReplies == {Ok(<<>>), ThrowsOf(<<>>)}

\* What GET /files/pull can do: the service returns what it stores for the
\* path, or a body without content, or the request throws
PullReplies ==
    (IF deviceFile.exists THEN {Ok(deviceFile.content)} ELSE {})
        \cup {Ok(NoContent), ThrowsOf(<<>>)}

\* A local path at which fs.existsSync finds nothing (an existing file may
\* be empty, which is not the same)
NoLocalFile == <<-2>>

\* What the local path of a pushFile() can hold
LocalFiles == FileContents \cup {NoLocalFile}

\* Mutant: pushFile() without its check of the local path
PushNeverRejects(local) == FALSE

\* pushFile(): `if (!fs.existsSync(localPath)) throw new FileError(...)`
PushRejects(local) == local = NoLocalFile

\* pushFile() of a local path that does not exist: the FileError thrown inside
\* the try block is caught and rethrown as FileError; no request is issued
FilePushMissing(local) ==
    /\ SandboxIdle
    /\ PushRejects(local)
    /\ last' = Call("files.pushFile", local, FileError, "none", <<>>, SandboxPre)
    /\ UNCHANGED <<streamVars, recordVars, uuid, svc, sandboxVars, fileVars, starting, awaiting>>

\* pushFile(): reads the file, posts its base64 text under the remote path;
\* the service stores what it accepted
FilePushRequest(bytes, reply) ==
    /\ SandboxIdle
    /\ ~PushRejects(bytes)
    /\ IF reply.ok
         THEN /\ deviceFile' = [exists |-> TRUE, content |-> Encode(bytes), bytes |-> bytes]
              /\ last' = Call("files.pushFile", bytes, NoError, TRUE,
                              <<Req("POST /files/push", "deviceId", Encode(bytes), reply)>>,
                              SandboxPre)
         ELSE /\ UNCHANGED deviceFile
              /\ last' = Call("files.pushFile", bytes, FileError, "none",
                              <<Req("POST /files/push", "deviceId", Encode(bytes), reply)>>,
                              SandboxPre)
    /\ UNCHANGED <<streamVars, recordVars, uuid, svc, sandboxVars, starting, awaiting>>

FilePush ==
    \E local \in LocalFiles :
        \/ FilePushMissing(local)
        \/ \E reply \in PushReplies : FilePushRequest(local, reply)

\* pullFile(): decodes response.content and writes the bytes to the local
\* path; Buffer.from(undefined, 'base64') throws, which like a thrown request
\* ends in FileError with nothing written
FilePull(reply) ==
    /\ SandboxIdle
    /\ IF reply.ok /\ reply.out # NoContent
         THEN last' = Call("files.pullFile", <<>>, NoError, TRUE,
                           <<Req("GET /files/pull", "deviceId", <<>>, reply),
                             Req("fs.writeFileSync", "localPath", Decode(reply.out), Ok(<<>>))>>,
                           SandboxPre)
         ELSE last' = Call("files.pullFile", <<>>, FileError, "none",
                           <<Req("GET /files/pull", "deviceId", <<>>, reply)>>, SandboxPre)
    /\ UNCHANGED <<streamVars, recordVars, uuid, svc, sandboxVars, fileVars, starting, awaiting>>

NextFiles == FilePush \/ \E reply \in PullReplies : FilePull(reply)

----------------------------------------------------------------------------
(* The caller issues one call at a time *)

\* Calls on the stream, record and app managers
NextManagers == NextStream \/ NextRecord \/ NextApp

Next == NextManagers \/ NextStreamRace \/ NextRecordRace \/ NextSandbox \/ NextFiles

Spec == Init /\ [][Next]_vars

\* The same caller confined to the managers, or to one of them
SpecManagers == Init /\ [][NextManagers]_vars

SpecStream == Init /\ [][NextStream]_vars

\* The stream manager with calls of start() overlapping
SpecStreamRace == Init /\ [][NextStreamRace]_vars

SpecRecord == Init /\ [][NextRecord]_vars

\* The recorder's operations issued without waiting for one another
SpecRecordRace == Init /\ [][NextRecordRace]_vars

\* The same caller confined to the sandbox's own operations
SpecSandbox == Init /\ [][NextSandbox]_vars

\* Input operations between calls that change the session, the stream and
\* the recording
NextInput ==
    \/ SandboxCreate \/ SandboxClose
    \/ Tap \/ DoubleTap \/ Swipe \/ LongPress \/ PinchOut \/ TypeText \/ PressKey \/ PressCombo
    \/ StreamStart \/ StreamStop \/ RecordStart \/ RecordStop

SpecInput == Init /\ [][NextInput]_vars

\* The same caller confined to file transfer
SpecFiles == Init /\ [][NextFiles]_vars

\* A step of a waitForApp() call in progress
WaitForAppStep ==
    \/ \E reply \in CurrentAppResponses, latency \in Latencies : WaitForAppPoll(reply, latency)
    \/ \E drift \in Drifts : WaitForAppWait(drift)
    \/ WaitForAppTimeout

\* Sessions created and waited on
NextWait == SandboxCreate \/ WaitForApp

\* Every poll is answered or times out after RequestTimeoutMs, and every
\* setTimeout fires: a call in progress takes its next step (each of which
\* moves polling.pc)
SpecWait == Init /\ [][NextWait]_vars /\ WF_<<polling.pc>>(WaitForAppStep)

----------------------------------------------------------------------------
(* Properties *)

\* The reply the first request of the last call was given
FirstReply == last.reqs[1].reply

\* C1: start() while Streaming resolves with the stored URL, issues no
\* request and changes nothing; whenever the manager is Streaming its id and
\* URL are those of the creation the service answered last.
C1_StartWhileStreaming ==
    /\ (last.op = "stream.start" /\ last.pre.isStreaming) =>
          /\ last.raised = NoError
          /\ last.ret = last.pre.streamUrl
          /\ last.reqs = <<>>
          /\ isStreaming
          /\ streamId = last.pre.streamId
          /\ streamUrl = last.pre.streamUrl
    /\ isStreaming => (streamId = svc.lastId /\ streamUrl = svc.lastUrl)

C1_Witness ==
    /\ last.op = "stream.start"
    /\ last.pre.isStreaming
    /\ last.ret \in Urls

\* C2: after stop() called while Streaming the manager is Idle, whether the
\* teardown request resolved or threw, so that a following start() would
\* issue a creation request.
C2_StopAlwaysIdles ==
    (last.op = "stream.stop" /\ last.pre.isStreaming) =>
        (~isStreaming /\ ~StartReturnsExisting)

\* C3: a start() from Idle whose creation request throws raises StreamError
\* and leaves the flag, the id and the URL as they were before the call.
C3_FailedStartChangesNothing ==
    (last.op = "stream.start" /\ ~last.pre.isStreaming /\ ~FirstReply.ok) =>
        /\ last.raised = StreamError
        /\ isStreaming = last.pre.isStreaming
        /\ streamId = last.pre.streamId
        /\ streamUrl = last.pre.streamUrl

\* C4: the stream URL is defined (neither null nor undefined) exactly when
\* the stream is active.
C4_UrlDefinedIffActive == (streamUrl \in Urls) <=> isStreaming

\* C5: a creation request is issued only when every stream created before
\* has had a teardown request issued for its id; at most one created stream
\* is without a teardown request at any time.
C5_AtMostOneStream ==
    /\ (last.op = "stream.start" /\ last.reqs # <<>>) => last.pre.live = {}
    /\ Cardinality(svc.created \ svc.deleted) <= 1

C5_Witness ==
    /\ last.op = "stream.start"
    /\ last.reqs # <<>>
    /\ FirstReply.ok
    /\ Cardinality(svc.created) = 2
    /\ last.pre.streamId \in svc.deleted

\* C6 as stated: stopping or deleting an idle sub-resource resolves and never
\* raises, for stream stop(), record stop(), deleteRecording() with nothing
\* tracked, and uninstall() of a package the install check reports absent.
C6_IdleStopOrDeleteNeverRaises ==
    /\ (last.op = "stream.stop" /\ ~last.pre.isStreaming) =>
          (last.raised = NoError /\ last.ret = TRUE)
    /\ (last.op = "record.stop" /\ ~last.pre.isRecording) => last.raised = NoError
    /\ (last.op = "record.deleteRecording" /\ last.arg = -1 /\ last.pre.recordingId = 0) =>
          last.raised = NoError
    /\ (last.op = "apps.uninstall" /\ FirstReply.ok /\ ~InstalledIn(FirstReply.out, last.arg)) =>
          (last.raised = NoError /\ last.ret = TRUE)

\* C6 as amended: stream stop() while Idle and uninstall() of an absent
\* package resolve with true (no request, respectively only the install
\* check); record stop() while not recording and deleteRecording() with no
\* argument and nothing tracked raise, issue no command and change nothing.
C6_IdleStopOrDelete ==
    /\ (last.op = "stream.stop" /\ ~last.pre.isStreaming) =>
          /\ last.raised = NoError /\ last.ret = TRUE
          /\ last.reqs = <<>>
          /\ StreamPre = last.pre
    /\ (last.op = "apps.uninstall" /\ FirstReply.ok /\ ~InstalledIn(FirstReply.out, last.arg)) =>
          /\ last.raised = NoError /\ last.ret = TRUE
          /\ Len(last.reqs) = 1
    /\ (last.op = "record.stop" /\ ~last.pre.isRecording) =>
          /\ last.raised # NoError
          /\ last.reqs = <<>>
          /\ RecordPre = last.pre
    /\ (last.op = "record.deleteRecording" /\ last.arg = -1 /\ last.pre.recordingId = 0) =>
          /\ last.raised # NoError
          /\ last.reqs = <<>>
          /\ RecordPre = last.pre

C6_Witness ==
    /\ last.op = "record.stop"
    /\ ~last.pre.isRecording
    /\ last.pre.recordingId \in svc.recorded
    /\ last.raised # NoError

\* C7: deleteRecording() aimed at the recording in progress, by explicit id
\* or by default, raises RecordingError, issues no delete and leaves the
\* tracked id and the flag as they were.
C7_DeleteActiveRejected ==
    (/\ last.op = "record.deleteRecording"
     /\ last.pre.isRecording
     /\ DeleteTarget(last.arg, last.pre.recordingId) = last.pre.recordingId) =>
        /\ last.raised.name = "RecordingError"
        /\ last.reqs = <<>>
        /\ recordingId = last.pre.recordingId
        /\ isRecording = last.pre.isRecording

\* C8: saveRecording() while Recording or with no tracked id raises
\* RecordingError and pulls nothing; a pull is issued only when Stopped (not
\* recording, tracked id of a recording that was started) and for that id.
C8_SaveOnlyWhenStopped ==
    /\ (last.op = "record.saveRecording" /\ (last.pre.isRecording \/ last.pre.recordingId = 0)) =>
          (last.raised.name = "RecordingError" /\ last.reqs = <<>>)
    /\ (last.op = "record.saveRecording" /\ last.reqs # <<>>) =>
          /\ ~last.pre.isRecording
          /\ last.pre.recordingId \in svc.recorded
          /\ Len(last.reqs) = 1
          /\ last.reqs[1].kind = "GET /files/pull"
          /\ last.reqs[1].id = last.pre.recordingId

\* C9: stop() while Recording whose existence check reports the artifact
\* absent raises RecordingError and leaves the recorder Stopped: a following
\* stop() is rejected and a following start() starts a new recording.
C9_StopWithArtifactAbsent ==
    (/\ last.op = "record.stop"
     /\ last.pre.isRecording
     /\ Len(last.reqs) = 3
     /\ last.reqs[3].reply.ok
     /\ ~FileExists(last.reqs[3].reply.out)) =>
        /\ last.raised.name = "RecordingError"
        /\ ~isRecording
        /\ StopRejects
        /\ ~StartReturnsRecording

\* C10: launch() of a package its install check reports absent raises
\* AppError having issued the install check alone: no activity resolution
\* and no start-activity command.
C10_LaunchOfAbsentPackage ==
    (last.op = "apps.launch" /\ FirstReply.ok /\ ~InstalledIn(FirstReply.out, last.arg)) =>
        /\ last.raised = AppError
        /\ Len(last.reqs) = 1
        /\ Kinds(last.reqs) = {"shell pm list packages"}

C10_Witness ==
    /\ last.op = "apps.launch"
    /\ FirstReply.ok
    /\ FirstReply.out # <<>>
    /\ ~InstalledIn(FirstReply.out, last.arg)
    /\ last.raised = AppError

----------------------------------------------------------------------------
(* What the record manager does guarantee in those calls, whatever the kind *)
(* of the error it raises                                                   *)

\* deleteRecording() aimed at the recording in progress raises, issues no
\* delete and changes nothing
DeleteActiveRaises ==
    (/\ last.op = "record.deleteRecording"
     /\ last.pre.isRecording
     /\ DeleteTarget(last.arg, last.pre.recordingId) = last.pre.recordingId) =>
        (last.raised # NoError /\ last.reqs = <<>> /\ RecordPre = last.pre)

\* saveRecording() while recording or with no tracked id raises and pulls
\* nothing; a pull is issued while not recording, for the tracked id
SaveGuarded ==
    /\ (last.op = "record.saveRecording" /\ (last.pre.isRecording \/ last.pre.recordingId = 0)) =>
          (last.raised # NoError /\ last.reqs = <<>>)
    /\ (last.op = "record.saveRecording" /\ last.reqs # <<>>) =>
          /\ ~last.pre.isRecording
          /\ Len(last.reqs) = 1
          /\ last.reqs[1].kind = "GET /files/pull"
          /\ last.reqs[1].id = last.pre.recordingId

\* stop() whose existence check reports the artifact absent raises and
\* leaves the recorder not recording, with the tracked id kept
StopAbsentRaises ==
    (/\ last.op = "record.stop"
     /\ last.pre.isRecording
     /\ Len(last.reqs) = 3
     /\ last.reqs[3].reply.ok
     /\ ~FileExists(last.reqs[3].reply.out)) =>
        (last.raised # NoError /\ ~isRecording /\ recordingId = last.pre.recordingId)

\* Refuted: "a pull is issued only for a recording that was started". A first
\* start() whose command throws leaves the generated id tracked, and
\* saveRecording() then pulls the path of a recording that never ran.
PullOnlyOfStartedRecording ==
    (last.op = "record.saveRecording" /\ last.reqs # <<>>) =>
        last.pre.recordingId \in svc.recorded

\* The foreground-app polls among the requests of a waitForApp() call
Polls(reqs) == SelectSeq(reqs, LAMBDA r : r.kind = "current_app")

\* Every poll reported a foreground package other than pkg
AllReportOther(reqs, pkg) ==
    \A i \in DOMAIN reqs :
        reqs[i].kind = "current_app" =>
            /\ reqs[i].reply.kind = "resolved"
            /\ reqs[i].reply.status = 200
            /\ reqs[i].reply.data \in WaitPackages \ {pkg}

\* A poll is never followed directly by another poll: a wait of 500ms was
\* asked for in between
Separated(reqs) ==
    \A i \in 1 .. Len(reqs) - 1 :
        reqs[i].kind = "current_app" =>
            /\ reqs[i + 1].kind = "wait"
            /\ reqs[i + 1].arg = PollWaitMs

\* C11: waitForApp(pkg, 1000) whose polls all report another foreground
\* package returns false after at least one and at most three polls, and
\* consecutive polls of such a call, returned or in progress, are separated by
\* the 500ms wait, whatever the latency of each request.
C11_WaitForAppTimesOut ==
    /\ (/\ last.op = "waitForApp"
        /\ last.arg[2] = 1000
        /\ AllReportOther(last.reqs, last.arg[1])) =>
           /\ last.ret = FALSE
           /\ Len(Polls(last.reqs)) \in 1 .. 3
           /\ Separated(last.reqs)
    /\ (/\ polling.pc # "idle"
        /\ polling.timeout_ms = 1000
        /\ AllReportOther(polling.reqs, polling.pkg)) =>
           /\ Len(Polls(polling.reqs)) <= 3
           /\ Separated(polling.reqs)

C11_Witness ==
    /\ last.op = "waitForApp"
    /\ last.arg[2] = 1000
    /\ AllReportOther(last.reqs, last.arg[1])
    /\ Len(Polls(last.reqs)) = 3
    /\ last.ret = FALSE

\* C12: pullFile() answered with exactly what the service stored from a
\* pushFile() writes the bytes of the pushed local file.
C12_PushPullRoundTrip ==
    (/\ last.op = "files.pullFile"
     /\ deviceFile.exists
     /\ FirstReply.ok
     /\ FirstReply.out = deviceFile.content) =>
        /\ last.raised = NoError
        /\ Len(last.reqs) = 2
        /\ last.reqs[2].kind = "fs.writeFileSync"
        /\ last.reqs[2].arg = deviceFile.bytes

C12_Witness ==
    /\ last.op = "files.pullFile"
    /\ deviceFile.exists
    /\ FirstReply.ok
    /\ FirstReply.out = deviceFile.content
    /\ Len(deviceFile.bytes) = 2
    /\ deviceFile.bytes[1] = 255
    /\ deviceFile.bytes[2] = 97

\* C13: a provisioning response with the success status and no device_id
\* makes create() raise ConnectionError, the identifier staying unset.
C13_MissingDeviceId ==
    (/\ last.op = "create"
     /\ last.reqs # <<>>
     /\ FirstReply.kind = "resolved"
     /\ FirstReply.status = CreatedStatus
     /\ FirstReply.data \in {"undefined", ""}) =>
        /\ last.raised = ConnectionError
        /\ device_id = "null"

C13_Witness ==
    /\ last.op = "create"
    /\ last.reqs # <<>>
    /\ FirstReply.kind = "resolved"
    /\ FirstReply.status = CreatedStatus
    /\ FirstReply.data = "undefined"

\* C14: create() with neither options.api_key nor the environment key raises
\* ApiKeyError, issues no request and yields no session object (the session
\* variables are untouched).
C14_NoCredential ==
    (/\ last.op = "create"
     /\ last.arg[1] \in {"null", ""}
     /\ last.arg[2] \in {"undefined", ""}) =>
        /\ last.raised = ApiKeyError
        /\ last.reqs = <<>>
        /\ api_key = last.pre.api_key
        /\ device_id = last.pre.device_id

C14_Witness ==
    /\ last.op = "create"
    /\ last.arg[1] = "null"
    /\ last.arg[2] = "undefined"
    /\ last.raised = ApiKeyError

C17_CloseWhenReleasedIsNoop ==
    (last.op = "close" /\ last.pre.device_id = "null") =>
        /\ last.reqs = <<>>
        /\ last.raised = NoError
        /\ SandboxPre = last.pre

\* Operations whose request is scoped to the device identifier
DeviceScoped == Gestures \cup {"shell", "screenshot", "waitForApp"}

\* C18: a device-scoped operation called while the identifier is unset issues
\* no request and fails.
C18_NoRequestWithoutDevice ==
    (last.op \in DeviceScoped /\ last.pre.device_id = "null") =>
        /\ last.reqs = <<>>
        /\ last.raised # NoError

KindOf(op) ==
    CASE op \in {"stream.start", "stream.stop", "stream.getStatus",
                 "stream.updateSettings"} -> "StreamError"
      [] op \in {"record.start", "record.stop", "record.saveRecording",
                 "record.getStatus", "record.deleteRecording"} -> "RecordingError"
      [] op \in {"apps.isInstalled", "apps.launch", "apps.uninstall"} -> "AppError"

\* C20: an error raised by a stream, recording or app operation is of its
\* controller's kind, and carries the underlying cause when a request of the
\* call threw.
C20_ErrorKindAndCause ==
    last.raised # NoError =>
        /\ last.raised.name = KindOf(last.op)
        /\ (\E i \in DOMAIN last.reqs : ~last.reqs[i].reply.ok) => last.raised.cause # "none"

\* C21: two start() calls overlapping from Idle issue two creation requests,
\* and once both responses have landed the stored id and the stored URL are
\* those of the stream whose response landed last.
C21_RaceReflectsLastResponse ==
    (/\ last.op = "stream.start"
     /\ last.reqs # <<>>
     /\ last.raised = NoError
     /\ starting = {}
     /\ Cardinality(svc.created \ svc.deleted) = 2) =>
        /\ streamId = last.reqs[1].id
        /\ streamUrl = UrlOf(last.reqs[1].id)

\* C22: a stop() that returns successfully from Streaming leaves the stored
\* id cleared, the stored URL cleared and the flag false.
C22_StopClearsIdAndUrl ==
    (last.op = "stream.stop" /\ last.pre.isStreaming /\ last.raised = NoError) =>
        /\ streamId = 0
        /\ streamUrl = "null"
        /\ ~isStreaming

\* C23: while Idle, getStatus() resolves with isStreaming false and
\* updateSettings() raises StreamError, each issuing no request and changing
\* nothing; an Idle call other than start() issues no request.
C23_IdleContactsOnlyToCreate ==
    /\ (last.op = "stream.getStatus" /\ ~last.pre.isStreaming) =>
          /\ last.raised = NoError
          /\ last.ret = [isStreaming |-> FALSE]
          /\ last.reqs = <<>>
          /\ StreamPre = last.pre
    /\ (last.op = "stream.updateSettings" /\ ~last.pre.isStreaming) =>
          /\ last.raised = StreamError
          /\ last.reqs = <<>>
          /\ StreamPre = last.pre
    /\ (last.op \in {"stream.stop", "stream.getStatus", "stream.updateSettings"}
          /\ ~last.pre.isStreaming) => last.reqs = <<>>

C23_Witness ==
    /\ last.op = "stream.updateSettings"
    /\ ~last.pre.isStreaming
    /\ last.pre.streamId # 0

\* C24: start() while Recording returns the id of the recording in progress,
\* issues no command and leaves the tracked id, the flag and the start time
\* as they were.
C24_StartWhileRecording ==
    (last.op = "record.start" /\ last.pre.isRecording) =>
        /\ last.raised = NoError
        /\ last.ret = last.pre.recordingId
        /\ last.reqs = <<>>
        /\ recordingId = last.pre.recordingId
        /\ recordingStartTime = last.pre.recordingStartTime
        /\ isRecording

C24_Witness ==
    /\ last.op = "record.start"
    /\ last.pre.isRecording
    /\ last.pre.recordingId = MaxUuid

\* C25: stop() while not Recording raises RecordingError, sends no interrupt
\* and leaves the recorder's state unchanged.
C25_StopWhileNotRecording ==
    (last.op = "record.stop" /\ ~last.pre.isRecording) =>
        /\ last.raised.name = "RecordingError"
        /\ last.reqs = <<>>
        /\ recordingId = last.pre.recordingId
        /\ isRecording = last.pre.isRecording
        /\ recordingStartTime = last.pre.recordingStartTime

\* What holds of stop() while not Recording: it raises, sends nothing and
\* changes nothing
StopNotRecordingRaises ==
    (last.op = "record.stop" /\ ~last.pre.isRecording) =>
        /\ last.raised # NoError
        /\ last.reqs = <<>>
        /\ recordingId = last.pre.recordingId
        /\ isRecording = last.pre.isRecording
        /\ recordingStartTime = last.pre.recordingStartTime

\* C26: a successful deleteRecording(id) clears the tracked id exactly when
\* id is the tracked id; deleting another id leaves the tracked id and the
\* flag as they were, also while a recording is in progress.
C26_DeleteClearsOnlyTracked ==
    (last.op = "record.deleteRecording" /\ last.raised = NoError) =>
        LET id == DeleteTarget(last.arg, last.pre.recordingId) IN
        /\ isRecording = last.pre.isRecording
        /\ IF id = last.pre.recordingId
             THEN recordingId = 0
             ELSE recordingId = last.pre.recordingId

C26_Witness ==
    /\ last.op = "record.deleteRecording"
    /\ last.raised = NoError
    /\ last.pre.isRecording
    /\ last.arg > 0
    /\ last.arg # last.pre.recordingId
    /\ recordingId = last.pre.recordingId

\* The recorder is Stopped: not recording, an id tracked
Stopped(r) == ~r.isRecording /\ r.recordingId # 0

\* C27 as stated: the flag is set only by start() and cleared only by stop(),
\* a start() that sets it tracks an id no earlier call was given, and from
\* Stopped no call leads to not recording with no tracked id.
C27_OnlyStartLeavesStopped ==
    last.op # "init" =>
        /\ (isRecording /\ ~last.pre.isRecording) =>
              (last.op = "record.start" /\ recordingId > last.pre.issued)
        /\ (~isRecording /\ last.pre.isRecording) => last.op = "record.stop"
        /\ Stopped(last.pre) => (isRecording \/ recordingId # 0)

\* C27, amended: the flag is set only by a start() that resolved and cleared
\* only by stop(); the tracked id changes only to an id no earlier call was
\* given, in start(), or to null, in a deleteRecording() of the tracked id
\* that resolved while not recording (which takes Stopped back to Idle).
C27_RecorderTransitions ==
    last.op # "init" =>
        /\ (isRecording /\ ~last.pre.isRecording) =>
              /\ last.op = "record.start"
              /\ last.raised = NoError
              /\ recordingId > last.pre.issued
        /\ (~isRecording /\ last.pre.isRecording) => last.op = "record.stop"
        /\ recordingId # last.pre.recordingId =>
              \/ last.op = "record.start" /\ recordingId > last.pre.issued
              \/ /\ last.op = "record.deleteRecording"
                 /\ last.raised = NoError
                 /\ ~last.pre.isRecording
                 /\ DeleteTarget(last.arg, last.pre.recordingId) = last.pre.recordingId
                 /\ recordingId = 0

C27_Witness ==
    /\ last.op = "record.deleteRecording"
    /\ Stopped(last.pre)
    /\ last.pre.recordingId \in svc.recorded
    /\ recordingId = 0
    /\ ~isRecording

\* A poll that returned success with the foreground package equal to pkg
Succeeded(req, pkg) ==
    /\ req.kind = "current_app"
    /\ req.reply.kind = "resolved"
    /\ req.reply.status = 200
    /\ req.reply.data = pkg

\* C28: waitForApp() never raises; it returns true exactly when a poll of the
\* call succeeded with the package waited for, and that poll is the last
\* request of the call; while the call goes on, no poll so far has (a failed
\* poll or one with another status is followed by the wait, not by a
\* return).
C28_WaitForAppResult ==
    /\ last.op = "waitForApp" =>
          /\ last.raised = NoError
          /\ last.ret = (\E i \in DOMAIN last.reqs : Succeeded(last.reqs[i], last.arg[1]))
          /\ \A i \in DOMAIN last.reqs :
                Succeeded(last.reqs[i], last.arg[1]) => i = Len(last.reqs)
    /\ polling.pc # "idle" =>
          \A i \in DOMAIN polling.reqs : ~Succeeded(polling.reqs[i], polling.pkg)
    /\ polling.pc = "wait" => polling.reqs[Len(polling.reqs)].kind = "current_app"

C28_Witness ==
    /\ last.op = "waitForApp"
    /\ last.ret = TRUE
    /\ Len(last.reqs) = 3
    /\ last.reqs[1].reply.kind = "request"

\* The positions of the requests of one kind in a call
Positions(reqs, kind) == {i \in DOMAIN reqs : reqs[i].kind = kind}

\* C29: install() issues install-existing first; the market intent and the
\* fixed wait only after an install check that answered false, the wait right
\* after the intent; and the value it returns is that of an install check
\* which is the last command of the call.
C29_InstallOrder ==
    last.op = "apps.install" =>
        /\ last.reqs[1].kind = "shell pm install-existing"
        /\ \A i \in Positions(last.reqs, "shell am start market") :
              /\ i = 3
              /\ last.reqs[2].kind = "shell pm list packages"
              /\ last.reqs[2].reply.ok
              /\ ~InstalledIn(last.reqs[2].reply.out, last.arg)
        /\ \A i \in Positions(last.reqs, "wait") :
              /\ last.reqs[i].id = MarketWaitMs
              /\ last.reqs[i - 1].kind = "shell am start market"
              /\ last.reqs[i - 1].reply.ok
        /\ last.raised = NoError =>
              LET final == last.reqs[Len(last.reqs)] IN
              /\ Len(last.reqs) >= 3
              /\ final.kind = "shell pm list packages"
              /\ final.reply.ok
              /\ last.ret = InstalledIn(final.reply.out, last.arg)

C29_Witness ==
    /\ last.op = "apps.install"
    /\ last.raised = NoError
    /\ Len(last.reqs) = 5
    /\ last.ret = TRUE

\* C30: uninstall() of a package whose install check answers false returns
\* true and issues no uninstall command; of one whose check answers true it
\* issues the uninstall command once and, when it returns, returns the
\* negation of an install check made after that command.
C30_UninstallResult ==
    (last.op = "apps.uninstall" /\ last.reqs[1].reply.ok) =>
        IF ~InstalledIn(last.reqs[1].reply.out, last.arg)
          THEN /\ last.raised = NoError
               /\ last.ret = TRUE
               /\ Positions(last.reqs, "shell pm uninstall") = {}
          ELSE /\ Positions(last.reqs, "shell pm uninstall") = {2}
               /\ last.raised = NoError =>
                     /\ Len(last.reqs) = 3
                     /\ last.reqs[3].kind = "shell pm list packages"
                     /\ last.reqs[3].reply.ok
                     /\ last.ret = ~InstalledIn(last.reqs[3].reply.out, last.arg)

C30_Witness ==
    /\ last.op = "apps.uninstall"
    /\ last.raised = NoError
    /\ Len(last.reqs) = 3
    /\ last.ret = FALSE

\* The lines of an output: its maximal runs free of "\n"
IsLine(output, i, j) ==
    /\ i = 1 \/ output[i - 1] = "\n"
    /\ j = Len(output) \/ output[j + 1] = "\n"
    /\ \A k \in i .. j : output[k] # "\n"

\* An output one of whose lines is exactly the token `package:<pkg>`
HasPackageToken(output, pkg) ==
    \E i \in 1 .. Len(output) :
        LET j == i + Len(pkg) IN
        /\ j <= Len(output)
        /\ SubSeq(output, i, j) = <<"P">> \o pkg
        /\ IsLine(output, i, j)

\* C31: isInstalled(pkg) returns true exactly when the package list holds
\* the exact token package:<pkg>; a list that only holds a package whose name
\* has pkg as a proper prefix yields false.
C31_ExactPackageToken ==
    (last.op = "apps.isInstalled" /\ last.raised = NoError) =>
        last.ret = HasPackageToken(last.reqs[1].reply.out, last.arg)

\* What holds of isInstalled(): it returns whether the text package:<pkg>
\* occurs anywhere in the output
IsInstalledBySubstring ==
    (last.op = "apps.isInstalled" /\ last.raised = NoError) =>
        last.ret = Includes(last.reqs[1].reply.out, <<"P">> \o last.arg)

\* C32: launch() of an installed package issues the start-activity command
\* only after the resolution output matched, and for exactly the matched
\* activity; with no match in the output it raises AppError and issues no
\* start-activity command.
C32_LaunchStartsMatchedActivity ==
    (/\ last.op = "apps.launch"
     /\ last.reqs[1].reply.ok
     /\ InstalledIn(last.reqs[1].reply.out, last.arg)) =>
        /\ Len(last.reqs) >= 2
        /\ last.reqs[2].kind = "shell resolve-activity"
        /\ \A i \in Positions(last.reqs, "shell am start -n") :
              /\ i = 3
              /\ last.reqs[2].reply.ok
              /\ MatchActivity(last.reqs[2].reply.out) # "none"
              /\ last.reqs[3].arg = <<MatchActivity(last.reqs[2].reply.out)>>
        /\ (last.reqs[2].reply.ok /\ MatchActivity(last.reqs[2].reply.out) = "none") =>
              /\ last.raised = AppError
              /\ Positions(last.reqs, "shell am start -n") = {}
        /\ (last.reqs[2].reply.ok /\ MatchActivity(last.reqs[2].reply.out) # "none") =>
              Positions(last.reqs, "shell am start -n") = {3}

C32_Witness ==
    /\ last.op = "apps.launch"
    /\ last.raised = NoError
    /\ Len(last.reqs) = 3
    /\ last.reqs[3].arg = <<"b/.Main">>

\* C33: pushFile() of a local path that holds no file fails with FileError
\* and issues no push request; what the service stores is left as it was.
C33_PushOfAbsentFile ==
    (last.op = "files.pushFile" /\ last.arg = NoLocalFile) =>
        /\ last.raised = FileError
        /\ last.reqs = <<>>
        /\ deviceFile.bytes # NoLocalFile

C33_Witness ==
    /\ last.op = "files.pushFile"
    /\ last.arg = NoLocalFile
    /\ deviceFile.exists

\* A response that carries what the operation asked for: status 200
Success(reply) == reply.kind = "resolved" /\ reply.status = 200

\* C34: whatever the service answers, screenshot() returns a buffer, empty
\* when the request or the download failed, and shell() returns a string,
\* the response's output on success and empty on failure; neither raises.
C34_SafeDefaults ==
    /\ last.op = "screenshot" =>
          /\ last.raised = NoError
          /\ last.ret \in {"image", "empty"}
          /\ (\E i \in DOMAIN last.reqs : ~Success(last.reqs[i].reply)) => last.ret = "empty"
    /\ last.op = "shell" =>
          /\ last.raised = NoError
          /\ last.ret \in ShellOutputs \ {"undefined"}
          /\ ~Success(FirstReply) => last.ret = ""
          /\ (Success(FirstReply) /\ FirstReply.data # "undefined") => last.ret = FirstReply.data

\* What holds of screenshot(): it never raises, and it returns a buffer
\* unless the response has status 200 and neither image field
ScreenshotBufferUnlessNeither ==
    last.op = "screenshot" =>
        /\ last.raised = NoError
        /\ last.ret \notin {"image", "empty"} =>
              (Success(FirstReply) /\ FirstReply.data = "undefined")

\* C35: a session's device identifier is assigned only by the create() that
\* constructs the session, keeps its value until close(), and once cleared
\* is not set again: every step that changes the identifier is a create(),
\* which starts a new session object, or a close() that clears it.
C35_IdentifierAssignedOnce ==
    [][device_id' # device_id =>
          \/ last'.op = "create" /\ last'.pre.device_id = device_id
          \/ last'.op = "close" /\ device_id' = "null"]_vars

C35_Witness ==
    /\ last.op = "close"
    /\ last.pre.device_id # "null"
    /\ device_id = "null"

\* A step in which the call in progress issues a poll: the poll is followed
\* by the wait, or it ends the call with true
PollIssued ==
    /\ polling.pc = "loop"
    /\ polling'.pc = "wait" \/ (last'.op = "waitForApp" /\ last'.ret = TRUE)

\* C36: waitForApp() always terminates when its polls complete and time
\* advances: a call in progress eventually returns, and a poll is issued only
\* while the caller's timeout has not elapsed.
C36_WaitForAppTerminates ==
    /\ (polling.pc # "idle") ~> (polling.pc = "idle")
    /\ [][PollIssued => clock < polling.end_time]_<<polling.pc>>

C36_Witness ==
    /\ last.op = "waitForApp"
    /\ last.ret = FALSE
    /\ Len(last.reqs) >= 4

\* C37: a start() while not Recording whose recording command fails leaves
\* the flag, the tracked id and the start time as they were before the call.
C37_FailedStartChangesNothing ==
    (last.op = "record.start" /\ ~last.pre.isRecording /\ ~FirstReply.ok) =>
        /\ isRecording = last.pre.isRecording
        /\ recordingId = last.pre.recordingId
        /\ recordingStartTime = last.pre.recordingStartTime

\* What holds of such a start(): it raises, the flag and the start time are
\* as before, and the tracked id is the id generated for the failed command
FailedStartKeepsFlag ==
    (last.op = "record.start" /\ ~last.pre.isRecording /\ ~FirstReply.ok) =>
        /\ last.raised # NoError
        /\ isRecording = last.pre.isRecording
        /\ recordingStartTime = last.pre.recordingStartTime
        /\ recordingId = last.reqs[1].id
        /\ recordingId # last.pre.recordingId

\* C40: a stop() while Recording whose interrupt command fails raises and
\* leaves the recorder Recording with the same tracked id; the flag is
\* cleared only when the interrupt was sent and the settle delay is over, and
\* then whatever the existence check answers.
C40_StopAdvancesAfterSettle ==
    (last.op = "record.stop" /\ last.pre.isRecording) =>
        /\ recordingId = last.pre.recordingId
        /\ recordingStartTime = last.pre.recordingStartTime
        /\ last.reqs[1].kind = "shell pkill -INT"
        /\ ~FirstReply.ok =>
              /\ last.raised # NoError
              /\ isRecording
              /\ Len(last.reqs) = 1
        /\ FirstReply.ok =>
              /\ ~isRecording
              /\ Len(last.reqs) = 3
              /\ last.reqs[2].kind = "wait" /\ last.reqs[2].id = SettleMs
              /\ last.reqs[3].kind = "shell [ -e ]"

C40_Witness ==
    /\ last.op = "record.stop"
    /\ last.pre.isRecording
    /\ ~FirstReply.ok
    /\ isRecording

\* C38: in every reachable state, the states reached when start(), stop()
\* and deleteRecording() overlap included, a recorder that is Recording has a
\* tracked recording id.
C38_RecordingHasId == isRecording => recordingId # 0

\* C39: sub-resource state never outlives the session: once close() has
\* cleared the device identifier, the stream controller is Idle and the
\* recorder is not Recording.
C39_NothingOutlivesSession ==
    (last.op = "close" /\ last.pre.device_id # "null" /\ device_id = "null") =>
        /\ ~isStreaming
        /\ ~isRecording

\* What holds of close(): it leaves the stream controller and the recorder
\* as they were
CloseLeavesManagers ==
    last.op = "close" =>
        /\ streamVars = last.pre.streamVars
        /\ recordVars = last.pre.recordVars
====
